---- MODULE Spec2Model ----
(***************************************************************************)
(* Panorama viewer: the scene catalog, the load/swap lifecycle of the      *)
(* panorama surface and the viewport (field-of-view zoom, reset), in the   *)
(* two variants of the repository:                                         *)
(*   "main"  src/main.js            append catalog, immediate decode       *)
(*   "part"  src/unnamed/part_000   replace catalog, fade timer, entry zoom*)
(* One action is one run of one event handler or callback of the           *)
(* single-threaded event loop.  Numbers the code keeps as doubles are kept *)
(* in fixed point: a field-of-view of d degrees is d * Scale.  The page is *)
(* taken to contain every optional element (overlays, slider, buttons).    *)
(***************************************************************************)
EXTENDS Integers, Sequences, FiniteSets, TLC

VARIABLES
  variant,              \* which source file runs: "main" or "part"
  scenes,               \* let scenes = []: sequence of [name, file, url]
  currentSceneIndex,    \* let currentSceneIndex = -1 (0-based, as in the code)
  fov,                  \* camera.fov
  initialPinchDistance, \* closure variable of init (null or a distance)
  initialFov,           \* closure variable of init (null or a field-of-view)
  exposure,             \* renderer.toneMappingExposure, in tenths
  isAutoRotating,       \* let isAutoRotating (part)
  autoRotate,           \* controls.autoRotate
  sphereMesh,           \* the owned mesh: [geometry, material, map]
  sceneChildren,        \* meshes added to the THREE.Scene
  gpu,                  \* not yet disposed geometries, materials, textures
  nextObj,              \* number of meshes constructed so far
  loadingHidden,        \* loadingOverlay carries the class 'hidden'
  overlayActive,        \* transitionOverlay carries the class 'active'
  revoked,              \* object URLs passed to URL.revokeObjectURL
  nextUrl,              \* number of object URLs created so far
  timers,               \* pending setTimeout(..., 500) closures, in order
  decodes,              \* loader.load calls whose callback has not run yet
  rafQueue,             \* pending requestAnimationFrame callbacks, in order
  now,                  \* timestamp of the last delivered frame (ms), see Frame
  calls,                \* history: one record per loadScene call that passed the guard
  lastOp                \* history: the handler that ran last, with its input

vars == << variant, scenes, currentSceneIndex, fov, initialPinchDistance,
           initialFov, exposure, isAutoRotating, autoRotate, sphereMesh,
           sceneChildren, gpu, nextObj, loadingHidden, overlayActive, revoked,
           nextUrl, timers, decodes, rafQueue, now, calls, lastOp >>

viewVars == << fov, initialPinchDistance, initialFov, exposure,
               isAutoRotating, autoRotate >>

surfaceVars == << sphereMesh, sceneChildren, gpu, nextObj >>

catalogVars == << scenes, currentSceneIndex, revoked, nextUrl >>

loadVars == << loadingHidden, overlayActive, timers, decodes, rafQueue, calls >>

\* null where the code holds a number or null (distances, field-of-views and
\* timestamps are never negative)
null == -1

\* texture = null
NullTexture == [ call |-> 0, url |-> 0, loader |-> "none", mapping |-> "none",
                 colorSpace |-> "none" ]

\* let sphereMesh = null
NullMesh == [ id |-> 0, geometry |-> 0, material |-> 0, map |-> NullTexture,
              color |-> "none" ]

(***************************************************************************)
(* Bounds of the model.                                                    *)
(***************************************************************************)
MaxFiles == 3        \* object URLs created in one run
MaxBatch == 2        \* files in one file-input change or drop
MaxLoads == 2        \* loadScene calls that pass the range guard in one run
FramesPerZoom == 2   \* frames the entry zoom takes from start to end

(***************************************************************************)
(* Fixed point.                                                            *)
(***************************************************************************)
Scale == 100

Deg(d) == d * Scale

Min(a, b) == IF a < b THEN a ELSE b

Max(a, b) == IF a > b THEN a ELSE b

RECURSIVE sqrtBetween(_, _, _)
\* the r in lo..hi with r * r <= n < (r + 1) * (r + 1), by bisection
sqrtBetween(n, lo, hi) ==
  IF lo = hi THEN lo
  ELSE LET mid == (lo + hi + 1) \div 2
       IN IF mid * mid <= n THEN sqrtBetween(n, mid, hi) ELSE sqrtBetween(n, lo, mid - 1)

\* Math.sqrt on the sums of squares the touch inputs produce (all exact)
Sqrt(n) == sqrtBetween(n, 0, Min(n, 40000))

(***************************************************************************)
(* Strings are sequences of one-character strings.                         *)
(***************************************************************************)
UpperCase == << "A", "B", "C", "D", "E", "F", "G", "H", "I", "J", "K", "L", "M",
                "N", "O", "P", "Q", "R", "S", "T", "U", "V", "W", "X", "Y", "Z" >>

LowerCase == << "a", "b", "c", "d", "e", "f", "g", "h", "i", "j", "k", "l", "m",
                "n", "o", "p", "q", "r", "s", "t", "u", "v", "w", "x", "y", "z" >>

LowerChar(c) ==
  IF \E i \in 1..Len(UpperCase) : UpperCase[i] = c
    THEN LowerCase[CHOOSE i \in 1..Len(UpperCase) : UpperCase[i] = c]
    ELSE c

\* String.prototype.toLowerCase
toLowerCase(s) == [i \in 1..Len(s) |-> LowerChar(s[i])]

\* s.split('.').pop(): what follows the last '.', the whole string without one
splitPop(s) ==
  LET dots == {i \in 1..Len(s) : s[i] = "."}
      last == IF dots = {} THEN 0 ELSE CHOOSE i \in dots : \A j \in dots : j <= i
  IN SubSeq(s, last + 1, Len(s))

DigitChars == << "0", "1", "2", "3", "4", "5", "6", "7", "8", "9" >>

RECURSIVE numberToString(_)
\* the decimal digits a template literal writes for a non-negative integer
numberToString(n) ==
  IF n < 10 THEN << DigitChars[n + 1] >>
  ELSE numberToString(n \div 10) \o << DigitChars[(n % 10) + 1] >>

\* `Scene ${n}`
sceneLabel(n) == << "S", "c", "e", "n", "e", " " >> \o numberToString(n)

hdr == << "h", "d", "r" >>

\* const extension = sceneData.name.split('.').pop().toLowerCase()
extensionOf(name) == toLowerCase(splitPop(name))

\* the loader the extension branch of loadScene picks
loaderFor(name) == IF extensionOf(name) = hdr THEN "RGBELoader" ELSE "TextureLoader"

(***************************************************************************)
(* Inputs.                                                                 *)
(***************************************************************************)
FileNames == { << "a", ".", "j", "p", "g" >>,
               << "b", ".", "H", "d", "R" >> }

RECURSIVE SeqsUpTo(_, _)
SeqsUpTo(S, n) ==
  IF n = 0 THEN { << >> }
  ELSE LET shorter == SeqsUpTo(S, n - 1)
       IN shorter \cup { Append(s, x) : s \in { t \in shorter : Len(t) = n - 1 }, x \in S }

\* event.target.files / dataTransfer.files
FileLists == SeqsUpTo(FileNames, MaxBatch)

\* the index a caller hands to loadScene
IndexInputs == -1 .. MaxFiles

\* event.deltaY
WheelDeltas == { -500, 100000 }

\* pageX, pageY of a touch point
TouchPoints == { << 0, 0 >>, << 300, 400 >> }

\* e.touches of a touchstart or touchmove: one finger, or two fingers at one
\* point or apart
TouchLists == { t \in SeqsUpTo(TouchPoints, 2) : Len(t) >= 1 /\ t[1] = << 0, 0 >> }

\* the values the exposure slider can deliver, in tenths
SliderValues == { 5, 10, 20 }

(***************************************************************************)
(* Program constants.                                                      *)
(***************************************************************************)
defaultFov == Deg(75)

fovMin == Deg(30)

fovMax == Deg(100)

\* const sensitivity = 0.05 (wheel): field-of-view units per unit of deltaY
sensitivity == (5 * Scale) \div 100

\* const sensitivity = 0.2 (pinch): field-of-view units per unit of distance
pinchSensitivity == (2 * Scale) \div 10

duration == 1500

\* time between two frames
FrameMs == duration \div FramesPerZoom

(***************************************************************************)
(* Panorama surface.                                                       *)
(***************************************************************************)
\* createSphere that does not dispose the texture of the mesh it replaces
createSphereKeepsMap(mesh, children, live, built, texture) ==
  LET removed == IF mesh # NullMesh THEN children \ { mesh.id } ELSE children
      kept == IF mesh # NullMesh
                THEN [ geometries |-> live.geometries \ { mesh.geometry },
                       materials  |-> live.materials \ { mesh.material },
                       textures   |-> live.textures ]
                ELSE live
      id == built + 1
      created == [ id |-> id, geometry |-> id, material |-> id, map |-> texture,
                   color |-> IF texture # NullTexture THEN "ffffff" ELSE "333333" ]
  IN [ sphereMesh    |-> created,
       sceneChildren |-> removed \cup { id },
       gpu           |-> [ geometries |-> kept.geometries \cup { id },
                           materials  |-> kept.materials \cup { id },
                           textures   |-> kept.textures ],
       nextObj       |-> id ]

\* function createSphere(texture = null), from the mesh, the scene children,
\* the live resources and the number of meshes built so far: their new values
createSphere(mesh, children, live, built, texture) ==
  LET removed == IF mesh # NullMesh THEN children \ { mesh.id } ELSE children
      kept == IF mesh # NullMesh
                THEN [ geometries |-> live.geometries \ { mesh.geometry },
                       materials  |-> live.materials \ { mesh.material },
                       textures   |-> IF mesh.map # NullTexture
                                        THEN live.textures \ { mesh.map }
                                        ELSE live.textures ]
                ELSE live
      id == built + 1
      created == [ id |-> id, geometry |-> id, material |-> id, map |-> texture,
                   color |-> IF texture # NullTexture THEN "ffffff" ELSE "333333" ]
  IN [ sphereMesh    |-> created,
       sceneChildren |-> removed \cup { id },
       gpu           |-> [ geometries |-> kept.geometries \cup { id },
                           materials  |-> kept.materials \cup { id },
                           textures   |-> kept.textures ],
       nextObj       |-> id ]

(***************************************************************************)
(* Initial state: after init() of either variant.                          *)
(***************************************************************************)
\* a handler, its input where a claim needs it (an index or a call, a file
\* list) and whether it raised an alert
Op(name, idx, files, alert) ==
  [ op |-> name, idx |-> idx, files |-> files, alert |-> alert ]

\* createSphere() of init: the placeholder
Placeholder ==
  createSphere(NullMesh, {}, [ geometries |-> {}, materials |-> {}, textures |-> {} ],
               0, NullTexture)

Init ==
  /\ variant \in { "main", "part" }
  /\ scenes = << >>
  /\ currentSceneIndex = -1
  /\ fov = Deg(75)
  /\ initialPinchDistance = null
  /\ initialFov = null
  /\ exposure \in (IF variant = "part" THEN SliderValues ELSE { 10 })
  /\ isAutoRotating = FALSE
  /\ autoRotate = FALSE
  /\ sphereMesh = Placeholder.sphereMesh
  /\ sceneChildren = Placeholder.sceneChildren
  /\ gpu = Placeholder.gpu
  /\ nextObj = Placeholder.nextObj
  /\ loadingHidden = TRUE
  /\ overlayActive = FALSE
  /\ revoked = {}
  /\ nextUrl = 0
  /\ timers = << >>
  /\ decodes = {}
  /\ rafQueue = << >>
  /\ now = 0
  /\ calls = << >>
  /\ lastOp = Op("init", 0, << >>, FALSE)

(***************************************************************************)
(* Viewport.                                                               *)
(***************************************************************************)
\* clampFov with the lower limit forgotten
clampFovNoMin(f) == Min(fovMax, f)

clampFov(f) == Max(fovMin, Min(fovMax, f))

\* canvas 'wheel' listener
Wheel(deltaY) ==
  /\ fov' = clampFov(fov + deltaY * sensitivity)
  /\ lastOp' = Op("wheel", 0, << >>, FALSE)
  /\ UNCHANGED << variant, initialPinchDistance, initialFov, exposure,
                  isAutoRotating, autoRotate >>
  /\ UNCHANGED << surfaceVars, catalogVars, loadVars, now >>

\* distance between the first two touch points
pinchDistance(touches) ==
  LET dx == touches[1][1] - touches[2][1]
      dy == touches[1][2] - touches[2][2]
  IN Sqrt(dx * dx + dy * dy)

\* canvas 'touchstart' listener
TouchStart(touches) ==
  /\ IF Len(touches) = 2
       THEN /\ initialPinchDistance' = pinchDistance(touches)
            /\ initialFov' = fov
       ELSE UNCHANGED << initialPinchDistance, initialFov >>
  /\ lastOp' = Op("touchstart", 0, << >>, FALSE)
  /\ UNCHANGED << variant, fov, exposure, isAutoRotating, autoRotate >>
  /\ UNCHANGED << surfaceVars, catalogVars, loadVars, now >>

\* canvas 'touchmove' listener
TouchMove(touches) ==
  /\ IF Len(touches) = 2 /\ initialPinchDistance # null
       THEN LET diff == initialPinchDistance - pinchDistance(touches)
            IN fov' = clampFov(initialFov + diff * pinchSensitivity)
       ELSE UNCHANGED fov
  /\ lastOp' = Op("touchmove", 0, << >>, FALSE)
  /\ UNCHANGED << variant, initialPinchDistance, initialFov, exposure,
                  isAutoRotating, autoRotate >>
  /\ UNCHANGED << surfaceVars, catalogVars, loadVars, now >>

\* canvas 'touchend' listener
TouchEnd ==
  /\ initialPinchDistance' = null
  /\ lastOp' = Op("touchend", 0, << >>, FALSE)
  /\ UNCHANGED << variant, fov, initialFov, exposure, isAutoRotating, autoRotate >>
  /\ UNCHANGED << surfaceVars, catalogVars, loadVars, now >>

\* toggleAutorotate 'change' listener (part)
ToggleAutorotate(checked) ==
  /\ variant = "part"
  /\ isAutoRotating' = checked
  /\ autoRotate' = checked
  /\ lastOp' = Op("autorotate", 0, << >>, FALSE)
  /\ UNCHANGED << variant, fov, initialPinchDistance, initialFov, exposure >>
  /\ UNCHANGED << surfaceVars, catalogVars, loadVars, now >>

\* sliderExposure 'input' listener (part)
ExposureInput(val) ==
  /\ variant = "part"
  /\ exposure' = val
  /\ lastOp' = Op("exposure", 0, << >>, FALSE)
  /\ UNCHANGED << variant, fov, initialPinchDistance, initialFov,
                  isAutoRotating, autoRotate >>
  /\ UNCHANGED << surfaceVars, catalogVars, loadVars, now >>

\* resetView that leaves the exposure alone
resetViewKeepsExposure ==
  /\ variant = "part"
  /\ fov' = defaultFov
  /\ autoRotate' = isAutoRotating
  /\ lastOp' = Op("resetView", 0, << >>, FALSE)
  /\ UNCHANGED << variant, initialPinchDistance, initialFov, isAutoRotating, exposure >>
  /\ UNCHANGED << surfaceVars, catalogVars, loadVars, now >>

\* resetView that, like a fresh OrbitControls, ends with autoRotate off
resetViewStopsRotation ==
  /\ variant = "part"
  /\ fov' = defaultFov
  /\ autoRotate' = FALSE
  /\ exposure' = 10
  /\ lastOp' = Op("resetView", 0, << >>, FALSE)
  /\ UNCHANGED << variant, initialPinchDistance, initialFov, isAutoRotating >>
  /\ UNCHANGED << surfaceVars, catalogVars, loadVars, now >>

\* function resetView (part), run by the btnReset 'click' listener
resetView ==
  /\ variant = "part"
  /\ fov' = defaultFov
  /\ autoRotate' = isAutoRotating
  /\ exposure' = 10
  /\ lastOp' = Op("resetView", 0, << >>, FALSE)
  /\ UNCHANGED << variant, initialPinchDistance, initialFov, isAutoRotating >>
  /\ UNCHANGED << surfaceVars, catalogVars, loadVars, now >>

(***************************************************************************)
(* Scene catalog and load lifecycle.  loadScene is called from inside      *)
(* handleFileUpload and from the scene item click, so it is an operator on *)
(* the part of the state it reads and writes.                              *)
(***************************************************************************)
Cur == [ scenes |-> scenes, currentSceneIndex |-> currentSceneIndex,
         loadingHidden |-> loadingHidden, overlayActive |-> overlayActive,
         timers |-> timers, decodes |-> decodes, calls |-> calls,
         revoked |-> revoked ]

\* loader.load(url, onLoad, undefined, onError) for the call numbered c; the
\* callbacks hold sceneData, and a revoked object URL cannot be fetched
issueDecode(st, sceneData, c) ==
  [ st EXCEPT !.decodes = @ \cup { [ call |-> c, sceneData |-> sceneData,
                                      loader |-> loaderFor(sceneData.name),
                                      fetchable |-> sceneData.url \notin st.revoked ] },
              !.calls[c].decodes = @ + 1 ]

\* history: a loadScene call with an index of the catalog, the entry at
\* that index and the decodes issued for the call so far
logCall(st, index) ==
  IF index < 0 \/ index >= Len(st.scenes) THEN st
  ELSE [ st EXCEPT !.calls = Append(@, [ url |-> st.scenes[index + 1].url,
                                         decodes |-> 0 ]) ]

\* loadScene of src/main.js with only the upper half of the range guard:
\* scenes[index] is undefined for a negative index and sceneData.name throws,
\* after the index was stored and the loading indicator shown
loadSceneMainNegative(st, index) ==
  IF index >= Len(st.scenes) THEN st
  ELSE IF index < 0
    THEN [ st EXCEPT !.currentSceneIndex = index, !.loadingHidden = FALSE ]
  ELSE LET sceneData == st.scenes[index + 1]
           shown == [ st EXCEPT !.currentSceneIndex = index,
                                !.loadingHidden = FALSE ]
       IN issueDecode(shown, sceneData, Len(st.calls))

\* loadScene of src/main.js without the range guard: scenes[index] is
\* undefined for an index outside the catalog and sceneData.name throws,
\* after the index was stored and the loading indicator shown
loadSceneMainUnguarded(st, index) ==
  IF index < 0 \/ index >= Len(st.scenes)
    THEN [ st EXCEPT !.currentSceneIndex = index, !.loadingHidden = FALSE ]
  ELSE LET sceneData == st.scenes[index + 1]
           shown == [ st EXCEPT !.currentSceneIndex = index,
                                !.loadingHidden = FALSE ]
       IN issueDecode(shown, sceneData, Len(st.calls))

\* function loadScene(index) of src/main.js; the call is the last one logged
loadSceneMain(st, index) ==
  IF index < 0 \/ index >= Len(st.scenes) THEN st
  ELSE LET sceneData == st.scenes[index + 1]
           shown == [ st EXCEPT !.currentSceneIndex = index,
                                !.loadingHidden = FALSE ]
       IN issueDecode(shown, sceneData, Len(st.calls))

\* loadScene of part_000 that returns early when the index is already active
loadScenePartCached(st, index) ==
  IF index < 0 \/ index >= Len(st.scenes) \/ index = st.currentSceneIndex THEN st
  ELSE LET sceneData == st.scenes[index + 1]
       IN [ st EXCEPT !.currentSceneIndex = index,
                      !.overlayActive = TRUE,
                      !.timers = Append(@, [ call |-> Len(st.calls),
                                             sceneData |-> sceneData ]) ]

\* loadScene of part_000 that starts the loader without the setTimeout
loadScenePartImmediate(st, index) ==
  IF index < 0 \/ index >= Len(st.scenes) THEN st
  ELSE LET sceneData == st.scenes[index + 1]
       IN issueDecode([ st EXCEPT !.currentSceneIndex = index,
                                  !.overlayActive = TRUE ],
                      sceneData, Len(st.calls))

\* function loadScene(index) of part_000, up to the setTimeout; the call is
\* the last one logged
loadScenePart(st, index) ==
  IF index < 0 \/ index >= Len(st.scenes) THEN st
  ELSE LET sceneData == st.scenes[index + 1]
       IN [ st EXCEPT !.currentSceneIndex = index,
                      !.overlayActive = TRUE,
                      !.timers = Append(@, [ call |-> Len(st.calls),
                                             sceneData |-> sceneData ]) ]

\* loadScene(index) of the variant that runs, with the call logged
loadScene(st, index) ==
  IF variant = "main" THEN loadSceneMain(logCall(st, index), index)
  ELSE loadScenePart(logCall(st, index), index)

\* the object URLs and entries handleFileUpload makes of a file list
newScenesMain(files) ==
  [ i \in 1..Len(files) |-> [ name |-> files[i], file |-> files[i], url |-> nextUrl + i ] ]

newScenesPart(files, len) ==
  [ i \in 1..Len(files) |->
      [ name |-> sceneLabel(len + (i - 1) + 1), file |-> files[i], url |-> nextUrl + i ] ]

\* handleFileUpload of src/main.js that loads the first new entry every time
handleFileUploadMainAlwaysLoads(st, files) ==
  IF Len(files) = 0 THEN st
  ELSE LET startIndex == Len(st.scenes)
           added == [ st EXCEPT !.scenes = @ \o newScenesMain(files) ]
       IN loadScene(added, startIndex)

\* function handleFileUpload(event) of src/main.js
handleFileUploadMain(st, files) ==
  IF Len(files) = 0 THEN st
  ELSE LET startIndex == Len(st.scenes)
           added == [ st EXCEPT !.scenes = @ \o newScenesMain(files) ]
       IN IF st.currentSceneIndex = -1 THEN loadScene(added, startIndex) ELSE added

\* handleFileUpload of part_000 without the closing loadScene(0)
handleFileUploadPartNoLoad(st, files) ==
  IF Len(files) = 0 THEN st
  ELSE LET cleared == IF Len(st.scenes) > 0
                        THEN [ st EXCEPT !.revoked = @ \cup { st.scenes[i].url : i \in 1..Len(st.scenes) },
                                         !.scenes = << >>,
                                         !.currentSceneIndex = -1 ]
                        ELSE st
       IN [ cleared EXCEPT !.scenes = @ \o newScenesPart(files, Len(cleared.scenes)) ]

\* handleFileUpload of part_000 that revokes the URL of the active entry only
handleFileUploadPartRevokesActive(st, files) ==
  IF Len(files) = 0 THEN st
  ELSE LET cleared == IF Len(st.scenes) > 0
                        THEN [ st EXCEPT !.revoked = @ \cup { st.scenes[st.currentSceneIndex + 1].url },
                                         !.scenes = << >>,
                                         !.currentSceneIndex = -1 ]
                        ELSE st
           added == [ cleared EXCEPT !.scenes = @ \o newScenesPart(files, Len(cleared.scenes)) ]
       IN loadScene(added, 0)

\* handleFileUpload of part_000 without the early return on an empty list
handleFileUploadPartNoEmptyCheck(st, files) ==
  LET cleared == IF Len(st.scenes) > 0
                   THEN [ st EXCEPT !.revoked = @ \cup { st.scenes[i].url : i \in 1..Len(st.scenes) },
                                    !.scenes = << >>,
                                    !.currentSceneIndex = -1 ]
                   ELSE st
      added == [ cleared EXCEPT !.scenes = @ \o newScenesPart(files, Len(cleared.scenes)) ]
  IN loadScene(added, 0)

\* handleFileUpload of part_000 that clears the catalog without revoking
handleFileUploadPartNoRevoke(st, files) ==
  IF Len(files) = 0 THEN st
  ELSE LET cleared == IF Len(st.scenes) > 0
                        THEN [ st EXCEPT !.scenes = << >>,
                                         !.currentSceneIndex = -1 ]
                        ELSE st
           added == [ cleared EXCEPT !.scenes = @ \o newScenesPart(files, Len(cleared.scenes)) ]
       IN loadScene(added, 0)

\* function handleFileUpload(event) of part_000
handleFileUploadPart(st, files) ==
  IF Len(files) = 0 THEN st
  ELSE LET cleared == IF Len(st.scenes) > 0
                        THEN [ st EXCEPT !.revoked = @ \cup { st.scenes[i].url : i \in 1..Len(st.scenes) },
                                         !.scenes = << >>,
                                         !.currentSceneIndex = -1 ]
                        ELSE st
           added == [ cleared EXCEPT !.scenes = @ \o newScenesPart(files, Len(cleared.scenes)) ]
       IN loadScene(added, 0)

handleFileUpload(st, files) ==
  IF variant = "main" THEN handleFileUploadMain(st, files) ELSE handleFileUploadPart(st, files)

\* the state a handler leaves, written to the variables
Becomes(st) ==
  /\ scenes' = st.scenes
  /\ currentSceneIndex' = st.currentSceneIndex
  /\ loadingHidden' = st.loadingHidden
  /\ overlayActive' = st.overlayActive
  /\ timers' = st.timers
  /\ decodes' = st.decodes
  /\ calls' = st.calls
  /\ revoked' = st.revoked

\* fileInput 'change' listener
FileInputChange(files) ==
  LET st == handleFileUpload(Cur, files)
  IN /\ nextUrl + Len(files) <= MaxFiles
     /\ Len(st.calls) <= MaxLoads
     /\ Becomes(st)
     /\ nextUrl' = nextUrl + Len(files)
     /\ lastOp' = Op("handleFileUpload", Len(files), files, FALSE)
     /\ UNCHANGED << variant, viewVars, surfaceVars, rafQueue, now >>

\* function handleDrop(e) of part_000: body 'drop' listener
handleDrop(files) ==
  LET st == handleFileUpload(Cur, files)
  IN /\ variant = "part"
     /\ nextUrl + Len(files) <= MaxFiles
     /\ Len(st.calls) <= MaxLoads
     /\ Becomes(st)
     /\ nextUrl' = nextUrl + Len(files)
     /\ lastOp' = Op("handleFileUpload", Len(files), files, FALSE)
     /\ UNCHANGED << variant, viewVars, surfaceVars, rafQueue, now >>

\* item.onclick = () => loadScene(index), and loadScene called with any index
SelectScene(index) ==
  LET st == loadScene(Cur, index)
  IN /\ Len(st.calls) <= MaxLoads
     /\ Becomes(st)
     /\ lastOp' = Op("loadScene", index, << >>, FALSE)
     /\ UNCHANGED << variant, viewVars, surfaceVars, nextUrl, rafQueue, now >>

\* the setTimeout callback of loadScene (part_000): timers of equal delay
\* fire in the order they were set
TimerFires ==
  /\ timers # << >>
  /\ LET t == Head(timers)
         st == issueDecode([ Cur EXCEPT !.timers = Tail(@) ], t.sceneData, t.call)
     IN /\ Becomes(st)
        /\ lastOp' = Op("timeout", t.call, << >>, FALSE)
  /\ UNCHANGED << variant, viewVars, surfaceVars, nextUrl, rafQueue, now >>

\* the texture object a loader hands to its success callback, as the
\* callback leaves it
decodedTexture(d) ==
  [ call |-> d.call, url |-> d.sceneData.url, loader |-> d.loader,
    mapping |-> IF variant = "main" /\ d.loader = "RGBELoader"
                  THEN "default" ELSE "EquirectangularReflectionMapping",
    colorSpace |-> IF d.loader = "TextureLoader" THEN "SRGBColorSpace" ELSE "default" ]

\* a success callback guarded against stale completions: only the decode of
\* the latest call rebuilds the surface
DecodeSucceedsIfLatest(d) ==
  /\ d \in decodes
  /\ d.fetchable
  /\ decodes' = decodes \ { d }
  /\ IF d.call = Len(calls)
       THEN LET texture == decodedTexture(d)
                built == createSphere(sphereMesh, sceneChildren,
                                      [ gpu EXCEPT !.textures = @ \cup { texture } ],
                                      nextObj, texture)
            IN /\ sphereMesh' = built.sphereMesh
               /\ sceneChildren' = built.sceneChildren
               /\ gpu' = built.gpu
               /\ nextObj' = built.nextObj
       ELSE UNCHANGED surfaceVars
  /\ IF variant = "main"
       THEN /\ loadingHidden' = TRUE
            /\ UNCHANGED rafQueue
       ELSE /\ rafQueue' = Append(rafQueue, [ kind |-> "fadeIn", startTime |-> null ])
            /\ UNCHANGED loadingHidden
  /\ lastOp' = Op("onLoad", d.call, << >>, FALSE)
  /\ UNCHANGED << variant, viewVars, catalogVars, overlayActive, timers, calls, now >>

\* onLoad and the RGBELoader success callback
DecodeSucceeds(d) ==
  /\ d \in decodes
  /\ d.fetchable
  /\ decodes' = decodes \ { d }
  /\ LET texture == decodedTexture(d)
         built == createSphere(sphereMesh, sceneChildren,
                               [ gpu EXCEPT !.textures = @ \cup { texture } ],
                               nextObj, texture)
     IN /\ sphereMesh' = built.sphereMesh
        /\ sceneChildren' = built.sceneChildren
        /\ gpu' = built.gpu
        /\ nextObj' = built.nextObj
  /\ IF variant = "main"
       THEN /\ loadingHidden' = TRUE
            /\ UNCHANGED rafQueue
       ELSE /\ rafQueue' = Append(rafQueue, [ kind |-> "fadeIn", startTime |-> null ])
            /\ UNCHANGED loadingHidden
  /\ lastOp' = Op("onLoad", d.call, << >>, FALSE)
  /\ UNCHANGED << variant, viewVars, catalogVars, overlayActive, timers, calls, now >>

\* onError that falls back to the untextured sphere with createSphere()
DecodeFailsShowsPlaceholder(d) ==
  /\ d \in decodes
  /\ decodes' = decodes \ { d }
  /\ LET built == createSphere(sphereMesh, sceneChildren, gpu, nextObj, NullTexture)
     IN /\ sphereMesh' = built.sphereMesh
        /\ sceneChildren' = built.sceneChildren
        /\ gpu' = built.gpu
        /\ nextObj' = built.nextObj
  /\ loadingHidden' = TRUE
  /\ overlayActive' = IF variant = "part" THEN FALSE ELSE overlayActive
  /\ lastOp' = Op("onError", d.call, << >>, TRUE)
  /\ UNCHANGED << variant, viewVars, catalogVars, timers, calls, rafQueue, now >>

\* onError that leaves the transition overlay as it is
DecodeFailsLeavesOverlay(d) ==
  /\ d \in decodes
  /\ decodes' = decodes \ { d }
  /\ loadingHidden' = TRUE
  /\ lastOp' = Op("onError", d.call, << >>, TRUE)
  /\ UNCHANGED << variant, viewVars, surfaceVars, catalogVars, timers, calls,
                  rafQueue, now, overlayActive >>

\* onError
DecodeFails(d) ==
  /\ d \in decodes
  /\ decodes' = decodes \ { d }
  /\ loadingHidden' = TRUE
  /\ overlayActive' = IF variant = "part" THEN FALSE ELSE overlayActive
  /\ lastOp' = Op("onError", d.call, << >>, TRUE)
  /\ UNCHANGED << variant, viewVars, surfaceVars, catalogVars, timers, calls,
                  rafQueue, now >>

(***************************************************************************)
(* Frames: every callback requested before the frame runs in it, in the    *)
(* order of the requests, with the frame's timestamp; a callback requested *)
(* during the frame runs in the next one.  A frame with no callback of a   *)
(* load pending runs the render loop only, which changes nothing kept      *)
(* here.  Only differences of timestamps are used, and no callback holds a *)
(* timestamp when the queue is empty: the clock then restarts at 0.        *)
(***************************************************************************)
\* const startFov = defaultFov * 0.5
startFov == defaultFov \div 2

\* camera.fov of zoomStep for the time since the start of the animation
zoomFov(elapsed) ==
  LET progress == Min((elapsed * Scale) \div duration, Scale)
      rest == Scale - progress
      ease == Scale - ((rest * rest * rest) \div (Scale * Scale))
  IN startFov + ((defaultFov - startFov) * ease) \div Scale

\* the fade-in callback without classList.remove('active')
fadeInKeepsOverlay(fs) ==
  [ fs EXCEPT !.loadingHidden = TRUE,
              !.fov = startFov,
              !.queue = Append(@, [ kind |-> "zoomStep", startTime |-> null ]) ]

\* the requestAnimationFrame callback of the success callbacks (part_000),
\* with animateEntryZoom
fadeIn(fs) ==
  [ fs EXCEPT !.overlayActive = FALSE,
              !.loadingHidden = TRUE,
              !.fov = startFov,
              !.queue = Append(@, [ kind |-> "zoomStep", startTime |-> null ]) ]

\* zoomStep that requests no frame when the next one would end the animation
zoomStepStopsEarly(fs, cb, timestamp) ==
  LET startTime == IF cb.startTime = null \/ cb.startTime = 0 THEN timestamp ELSE cb.startTime
      elapsed == timestamp - startTime
  IN [ fs EXCEPT !.fov = zoomFov(elapsed),
                 !.queue = IF elapsed + FrameMs < duration
                             THEN Append(@, [ kind |-> "zoomStep", startTime |-> startTime ])
                             ELSE @ ]

\* function zoomStep(timestamp) of animateEntryZoom
zoomStep(fs, cb, timestamp) ==
  LET startTime == IF cb.startTime = null \/ cb.startTime = 0 THEN timestamp ELSE cb.startTime
      elapsed == timestamp - startTime
  IN [ fs EXCEPT !.fov = zoomFov(elapsed),
                 !.queue = IF elapsed < duration
                             THEN Append(@, [ kind |-> "zoomStep", startTime |-> startTime ])
                             ELSE @ ]

RECURSIVE runCallbacks(_, _, _)
runCallbacks(fs, queue, timestamp) ==
  IF queue = << >> THEN fs
  ELSE LET cb == Head(queue)
           after == IF cb.kind = "fadeIn" THEN fadeIn(fs) ELSE zoomStep(fs, cb, timestamp)
       IN runCallbacks(after, Tail(queue), timestamp)

\* one frame of the browser
Frame ==
  /\ rafQueue # << >>
  /\ LET timestamp == now + FrameMs
         fs == runCallbacks([ fov |-> fov, overlayActive |-> overlayActive,
                              loadingHidden |-> loadingHidden, queue |-> << >> ],
                            rafQueue, timestamp)
     IN /\ now' = IF fs.queue = << >> THEN 0 ELSE timestamp
        /\ fov' = fs.fov
        /\ overlayActive' = fs.overlayActive
        /\ loadingHidden' = fs.loadingHidden
        /\ rafQueue' = fs.queue
  /\ lastOp' = Op("frame", 0, << >>, FALSE)
  /\ UNCHANGED << variant, initialPinchDistance, initialFov, exposure,
                  isAutoRotating, autoRotate >>
  /\ UNCHANGED << surfaceVars, catalogVars, timers, decodes, calls >>

(***************************************************************************)
(* Specification.                                                          *)
(***************************************************************************)
Next ==
  \/ \E deltaY \in WheelDeltas : Wheel(deltaY)
  \/ \E touches \in TouchLists : TouchStart(touches)
  \/ \E touches \in TouchLists : TouchMove(touches)
  \/ TouchEnd
  \/ \E checked \in BOOLEAN : ToggleAutorotate(checked)
  \/ \E val \in SliderValues : ExposureInput(val)
  \/ resetView
  \/ \E files \in FileLists : FileInputChange(files)
  \/ \E files \in FileLists : handleDrop(files)
  \/ \E index \in IndexInputs : SelectScene(index)
  \/ TimerFires
  \/ \E d \in decodes : DecodeSucceeds(d)
  \/ \E d \in decodes : DecodeFails(d)
  \/ Frame

Spec == Init /\ [][Next]_vars

\* the indexes of the scene items renderSceneList built last
SceneItems == 0 .. Len(scenes) - 1

\* the file lists that hold a file
FilledLists == FileLists \ { << >> }

\* the catalog and the load lifecycle under the inputs that change them:
\* files chosen or dropped, scene items clicked, no viewport input
NextCatalog ==
  \/ \E files \in FilledLists : FileInputChange(files)
  \/ \E files \in FilledLists : handleDrop(files)
  \/ \E index \in SceneItems : SelectScene(index)
  \/ TimerFires
  \/ \E d \in decodes : DecodeSucceeds(d)
  \/ \E d \in decodes : DecodeFails(d)
  \/ Frame

\* the slider of the page starts at the default exposure
InitDefault == Init /\ exposure = 10

SpecCatalog == InitDefault /\ [][NextCatalog]_vars

\* part_000 after init(), the slider at the default exposure
InitReplace == InitDefault /\ variant = "part"

\* the catalog and the load lifecycle of part_000
SpecReplace == InitReplace /\ [][NextCatalog]_vars

\* file lists of copies of one file, the empty list among them
PlainLists == SeqsUpTo({ << "a", ".", "j", "p", "g" >> }, MaxBatch)

\* the catalog and the load lifecycle with the inputs the guards of
\* handleFileUpload and loadScene turn away: an empty file list, an index
\* outside the catalog
NextGuards ==
  \/ \E files \in PlainLists : FileInputChange(files)
  \/ \E files \in PlainLists : handleDrop(files)
  \/ \E index \in IndexInputs : SelectScene(index)
  \/ TimerFires
  \/ \E d \in decodes : DecodeSucceeds(d)
  \/ \E d \in decodes : DecodeFails(d)
  \/ Frame

SpecGuards == InitDefault /\ [][NextGuards]_vars

\* one file that decodes on the standard path
OneFile == << << "a", ".", "j", "p", "g" >> >>

\* the field-of-view with every input that writes it, and the loads that
\* start entry zooms: one file added to the empty catalog, its scene
\* selected again, every decode succeeding
NextZoom ==
  \/ \E deltaY \in WheelDeltas : Wheel(deltaY)
  \/ \E touches \in TouchLists : TouchStart(touches)
  \/ \E touches \in TouchLists : TouchMove(touches)
  \/ TouchEnd
  \/ resetView
  \/ (scenes = << >> /\ FileInputChange(OneFile))
  \/ \E index \in SceneItems : SelectScene(index)
  \/ TimerFires
  \/ \E d \in decodes : DecodeSucceeds(d)
  \/ Frame

SpecZoom == InitDefault /\ [][NextZoom]_vars

\* the viewport of part_000 alone: zoom, exposure, autorotate and reset
NextViewport ==
  \/ \E deltaY \in WheelDeltas : Wheel(deltaY)
  \/ \E touches \in TouchLists : TouchStart(touches)
  \/ \E touches \in TouchLists : TouchMove(touches)
  \/ TouchEnd
  \/ \E checked \in BOOLEAN : ToggleAutorotate(checked)
  \/ \E val \in SliderValues : ExposureInput(val)
  \/ resetView

\* part_000 after init()
InitPart == Init /\ variant = "part"

SpecViewport == InitPart /\ [][NextViewport]_vars

\* reset, autorotate and exposure of part_000 while a scene is loaded and
\* reloaded: no wheel or touch input, every decode succeeding
NextReset ==
  \/ \E checked \in BOOLEAN : ToggleAutorotate(checked)
  \/ \E val \in SliderValues : ExposureInput(val)
  \/ resetView
  \/ (scenes = << >> /\ FileInputChange(OneFile))
  \/ \E index \in SceneItems : SelectScene(index)
  \/ TimerFires
  \/ \E d \in decodes : DecodeSucceeds(d)
  \/ Frame

SpecReset == InitReplace /\ [][NextReset]_vars

\* two files of either loader
TwoFiles == << << "a", ".", "j", "p", "g" >>, << "b", ".", "H", "d", "R" >> >>

\* the load lifecycle alone: two files added to the empty catalog, their scene
\* items clicked, decodes succeeding or failing
NextLoads ==
  \/ (scenes = << >> /\ FileInputChange(TwoFiles))
  \/ \E index \in SceneItems : SelectScene(index)
  \/ TimerFires
  \/ \E d \in decodes : DecodeSucceeds(d)
  \/ \E d \in decodes : DecodeFails(d)
  \/ Frame

\* the load lifecycle with the timers firing, every issued decode completing
\* and the frames being delivered
SpecLoadsFair ==
  /\ InitDefault
  /\ [][NextLoads]_vars
  /\ WF_vars(TimerFires)
  /\ WF_vars(\E d \in decodes : DecodeSucceeds(d) \/ DecodeFails(d))
  /\ WF_vars(Frame)

\* e.touches with two fingers
PinchLists == { t \in TouchLists : Len(t) = 2 }

\* the entry zoom of part_000 among the inputs that write the field-of-view:
\* a wheel turn, a pinch, a reset, and loads of one file that all succeed
NextEntryZoom ==
  \/ Wheel(100000)
  \/ \E touches \in PinchLists : TouchStart(touches)
  \/ \E touches \in PinchLists : TouchMove(touches)
  \/ TouchEnd
  \/ resetView
  \/ (scenes = << >> /\ FileInputChange(OneFile))
  \/ \E index \in SceneItems : SelectScene(index)
  \/ TimerFires
  \/ \E d \in decodes : DecodeSucceeds(d)
  \/ Frame

\* the entry zoom with the frames being delivered
SpecEntryZoomFair == InitReplace /\ [][NextEntryZoom]_vars /\ WF_vars(Frame)

(***************************************************************************)
(* Properties.                                                             *)
(***************************************************************************)
\* C1: the camera field-of-view is within [30, 100] in every state, whatever
\* wheel, pinch, reset and entry-zoom steps led to it, in both variants
FovWithinLimits == fovMin <= fov /\ fov <= fovMax

\* a pinch has driven the field-of-view to the lower limit after a scene of
\* part_000 was loaded and its entry zoom had started
FovClampedByPinch ==
  /\ variant = "part"
  /\ lastOp.op = "touchmove"
  /\ fov = fovMin
  /\ initialFov < defaultFov
  /\ nextObj > 1

\* C3: -1 <= currentSceneIndex < scenes.length in every state
IndexWithinCatalog ==
  /\ -1 <= currentSceneIndex
  /\ currentSceneIndex < Len(scenes)

\* the last entry of a catalog of two or more was selected by loadScene
LastEntrySelected ==
  /\ lastOp.op = "loadScene"
  /\ Len(scenes) >= 2
  /\ currentSceneIndex = Len(scenes) - 1

\* the decodes issued for the calls logged so far: none while the fade
\* timer of the call is pending, one from then on
DecodesMatchCalls ==
  \A c \in 1..Len(calls) :
    calls[c].decodes = IF \E i \in 1..Len(timers) : timers[i].call = c THEN 0 ELSE 1

\* C2: every loadScene call with an index of the catalog issues exactly one
\* decode (in part_000 when its fade timer fires), also for the index that
\* is already active, and the success callback of that decode rebuilds the
\* surface with a non-null texture decoded from the entry the call selected
OneDecodePerCall ==
  /\ []DecodesMatchCalls
  /\ [][ lastOp'.op = "onLoad" =>
           /\ sphereMesh'.id # sphereMesh.id
           /\ sphereMesh'.map # NullTexture
           /\ sphereMesh'.map.call = lastOp'.idx
           /\ sphereMesh'.map.url = calls[lastOp'.idx].url ]_vars

\* the active entry was selected again and the decode of that second call
\* succeeded
ReloadOfActiveDecoded ==
  /\ lastOp.op = "onLoad"
  /\ lastOp.idx = 2
  /\ calls[1].url = calls[2].url
  /\ sphereMesh.map.url = calls[2].url

\* C4: loadScene with an index outside [0, scenes.length) changes nothing:
\* catalog, active index, surface, overlays, timers, decodes, frame callbacks
OutOfRangeIsNoOp ==
  [][ (lastOp'.op = "loadScene" /\ (lastOp'.idx < 0 \/ lastOp'.idx >= Len(scenes)))
        => UNCHANGED << catalogVars, surfaceVars, loadVars, viewVars, now >> ]_vars

\* loadScene was called with an index past the end of a catalog of two
OutOfRangeCalled ==
  /\ lastOp.op = "loadScene"
  /\ Len(scenes) = 2
  /\ lastOp.idx >= Len(scenes)

\* C5: handleFileUpload of src/main.js with a non-empty list keeps the
\* entries it finds and appends the new ones in order; the first new entry
\* becomes active and is loaded iff no entry was active, otherwise the active
\* index stays and no decode is issued
AppendKeepsCatalog ==
  [][ (variant = "main" /\ lastOp'.op = "handleFileUpload" /\ lastOp'.idx > 0) =>
        LET files == lastOp'.files
            n == Len(scenes)
        IN /\ Len(scenes') = n + Len(files)
           /\ SubSeq(scenes', 1, n) = scenes
           /\ \A i \in 1..Len(files) :
                /\ scenes'[n + i].file = files[i]
                /\ scenes'[n + i].name = files[i]
                /\ scenes'[n + i].url = nextUrl + i
           /\ revoked' = revoked
           /\ IF currentSceneIndex = -1
                THEN /\ currentSceneIndex' = n
                     /\ Len(calls') = Len(calls) + 1
                     /\ calls'[Len(calls')].url = scenes'[n + 1].url
                     /\ Cardinality(decodes' \ decodes) = 1
                     /\ \A d \in decodes' \ decodes : d.sceneData = scenes'[n + 1]
                     /\ decodes \subseteq decodes'
                ELSE /\ currentSceneIndex' = currentSceneIndex
                     /\ decodes' = decodes
                     /\ calls' = calls
                     /\ timers' = timers ]_vars

\* a second batch was appended while the first entry was active
BatchAppendedToActive ==
  /\ variant = "main"
  /\ lastOp.op = "handleFileUpload"
  /\ lastOp.idx > 0
  /\ Len(scenes) > lastOp.idx
  /\ currentSceneIndex = 0
  /\ Len(calls) = 1

\* C6: handleFileUpload of part_000 with a non-empty list leaves exactly the
\* new batch in order, with every object URL of the previous catalog revoked,
\* the active index 0 and a load of the first new entry started
ReplaceInstallsBatch ==
  [][ (variant = "part" /\ lastOp'.op = "handleFileUpload" /\ lastOp'.idx > 0) =>
        LET files == lastOp'.files
        IN /\ Len(scenes') = Len(files)
           /\ \A i \in 1..Len(files) :
                /\ scenes'[i].file = files[i]
                /\ scenes'[i].url = nextUrl + i
                /\ scenes'[i].url \notin revoked'
           /\ \A i \in 1..Len(scenes) : scenes[i].url \in revoked'
           /\ currentSceneIndex' = 0
           /\ overlayActive'
           /\ Len(calls') = Len(calls) + 1
           /\ calls'[Len(calls')].url = scenes'[1].url
           /\ timers' = Append(timers, [ call |-> Len(calls'), sceneData |-> scenes'[1] ]) ]_vars

\* a batch of one replaced a batch of two
BatchReplaced ==
  /\ variant = "part"
  /\ lastOp.op = "handleFileUpload"
  /\ Len(scenes) = 1
  /\ Cardinality(revoked) = 2
  /\ Len(calls) = 2
  /\ currentSceneIndex = 0

\* C7 as claimed: after onError the active index is the index of the entry
\* whose decode failed, the surface is as before, the loading indicator is
\* hidden and the transition overlay inactive
FailureLeavesFailedEntryActive ==
  [][ lastOp'.op = "onError" =>
        /\ currentSceneIndex' >= 0
        /\ scenes'[currentSceneIndex' + 1].url = calls[lastOp'.idx].url
        /\ UNCHANGED surfaceVars
        /\ loadingHidden'
        /\ (variant = "part" => ~overlayActive') ]_vars

\* C7 amended: onError leaves the active index and the catalog as they are
\* (the active index is that of the failed entry when the failed load is the
\* latest loadScene call), the surface is as before, the loading indicator
\* is hidden and the transition overlay inactive
FailureLeavesIndexUnchanged ==
  [][ lastOp'.op = "onError" =>
        /\ currentSceneIndex' = currentSceneIndex
        /\ scenes' = scenes
        /\ (lastOp'.idx = Len(calls) =>
              /\ currentSceneIndex' >= 0
              /\ scenes'[currentSceneIndex' + 1].url = calls[lastOp'.idx].url)
        /\ UNCHANGED surfaceVars
        /\ loadingHidden'
        /\ (variant = "part" => ~overlayActive') ]_vars

\* the latest selection failed to decode while the surface shows the texture
\* of another entry
FailedWithOtherEntryShown ==
  /\ lastOp.op = "onError"
  /\ lastOp.idx = Len(calls)
  /\ sphereMesh.map # NullTexture
  /\ sphereMesh.map.url # calls[lastOp.idx].url
  /\ scenes[currentSceneIndex + 1].url = calls[lastOp.idx].url

\* the name ends in '.hdr', in any case of the letters
endsInDotHdr(name) ==
  /\ Len(name) >= 4
  /\ toLowerCase(SubSeq(name, Len(name) - 3, Len(name))) = << "." >> \o hdr

\* C8 as claimed: a decode is on the HDR path exactly when the file of the
\* selected entry has a name that ends in '.hdr'
HdrFilesUseHdrPath ==
  \A d \in decodes :
    (d.loader = "RGBELoader") <=> endsInDotHdr(d.sceneData.file)

\* C9: at most one geometry, one material, one texture and one mesh in the
\* scene are live, and they are those of the current mesh
OneLiveSurface ==
  /\ sceneChildren = { sphereMesh.id }
  /\ gpu.geometries = { sphereMesh.geometry }
  /\ gpu.materials = { sphereMesh.material }
  /\ gpu.textures = IF sphereMesh.map = NullTexture THEN {} ELSE { sphereMesh.map }
  /\ Cardinality(gpu.textures) <= 1

\* a textured surface was replaced by another textured surface
SurfaceRebuiltTwice ==
  /\ nextObj >= 3
  /\ lastOp.op = "onLoad"
  /\ sphereMesh.map # NullTexture

\* C10: in the state resetView leaves, the field-of-view is the default and
\* the exposure is 1.0
ResetRestoresDefaults ==
  lastOp.op = "resetView" => fov = defaultFov /\ exposure = 10

\* resetView ran while a pinch that began at the lower limit was in progress
ResetDuringPinch ==
  /\ lastOp.op = "resetView"
  /\ initialPinchDistance # null
  /\ initialFov = fovMin

\* C11: resetView leaves isAutoRotating and controls.autoRotate at the values
\* they had, and leaves the catalog, the active index, the surface and the
\* loads in progress alone (no decode, timer or call is added)
ResetKeepsRotationAndScene ==
  [][ lastOp'.op = "resetView" =>
        /\ isAutoRotating' = isAutoRotating
        /\ autoRotate' = autoRotate
        /\ UNCHANGED << catalogVars, surfaceVars, loadVars >> ]_vars

\* resetView ran with autorotate on, a scene shown and a decode in flight
ResetWhileRotatingAndLoading ==
  /\ lastOp.op = "resetView"
  /\ isAutoRotating
  /\ autoRotate
  /\ sphereMesh.map # NullTexture
  /\ decodes # {}

\* C12: handleFileUpload with an empty file list changes nothing: catalog,
\* active index, revoked handles, surface, loading UI, timers and decodes stay
\* as they were, and no alert is raised
EmptyUploadIsNoOp ==
  [][ lastOp'.op = "handleFileUpload" /\ lastOp'.files = << >> =>
        /\ UNCHANGED << catalogVars, surfaceVars, loadVars, viewVars >>
        /\ ~lastOp'.alert ]_vars

\* an empty list arrived in part_000 while the catalog held entries
EmptyUploadOnFilledCatalog ==
  /\ lastOp.op = "handleFileUpload"
  /\ lastOp.files = << >>
  /\ variant = "part"
  /\ Len(scenes) > 0
  /\ currentSceneIndex = 0
  /\ revoked = {}

\* C13: a surface exists in every state; it carries no texture as long as no
\* load was requested, only a success callback changes its texture, and a
\* success callback leaves it textured: the untextured surface is seen until
\* the first successful decode and never again after it
PlaceholderUntilFirstDecode ==
  /\ [](sphereMesh # NullMesh /\ sphereMesh.id \in sceneChildren)
  /\ [](calls = << >> => sphereMesh.map = NullTexture)
  /\ [][ IF lastOp'.op = "onLoad"
           THEN sphereMesh'.map # NullTexture
           ELSE sphereMesh'.map = sphereMesh.map ]_vars

\* a decode failed after the catalog was replaced, with a texture already shown
TexturedAfterLaterFailure ==
  /\ lastOp.op = "onError"
  /\ revoked # {}
  /\ sphereMesh.map # NullTexture
  /\ sphereMesh.color = "ffffff"

\* C14: completions are not guarded.  The active entry is always the one the
\* latest call selected, while the success callback of a call that is no
\* longer the latest still installs its own texture and leaves the active
\* index alone; so the surface can rest on a texture that is not the active
\* entry's, in both variants
StaleCompletionWins ==
  /\ [](calls # << >> =>
          /\ currentSceneIndex \in 0..(Len(scenes) - 1)
          /\ scenes[currentSceneIndex + 1].url = calls[Len(calls)].url)
  /\ [][ lastOp'.op = "onLoad" /\ lastOp'.idx # Len(calls) =>
           /\ sphereMesh'.map.url = calls[lastOp'.idx].url
           /\ currentSceneIndex' = currentSceneIndex ]_vars

\* nothing of a load is pending, both decodes succeeded, and the surface shows
\* the texture of an entry that is not the active one
StaleSurfaceAtRest ==
  /\ timers = << >>
  /\ decodes = {}
  /\ rafQueue = << >>
  /\ Len(calls) = 2
  /\ nextObj = Len(calls) + 1
  /\ currentSceneIndex >= 0
  /\ sphereMesh.map.url # scenes[currentSceneIndex + 1].url

\* C15: the loading UI is never left stuck.  In every state with no timer,
\* no decode and no frame callback of a load pending, the loading indicator
\* is hidden and the transition overlay is inactive; and with timers firing,
\* decodes completing and frames delivered, a shown indicator is eventually
\* hidden and an active overlay eventually inactive
LoadingUiNeverStuck ==
  /\ [](timers = << >> /\ decodes = {} /\ rafQueue = << >> =>
          loadingHidden /\ ~overlayActive)
  /\ (~loadingHidden ~> loadingHidden)
  /\ (overlayActive ~> ~overlayActive)

\* part_000 at rest after two overlapping loads, one decoded and one failed
AtRestAfterMixedLoads ==
  /\ variant = "part"
  /\ timers = << >>
  /\ decodes = {}
  /\ rafQueue = << >>
  /\ Len(calls) = 2
  /\ nextObj = 2
  /\ loadingHidden
  /\ ~overlayActive

\* C16: in part_000 a loadScene call with an index of the catalog activates
\* the overlay and queues a timer for the entry in the same step, issuing no
\* decode; a decode is issued only by the step in which the oldest pending
\* timer fires, for the call of that timer; and the calls whose decode was
\* issued are always the earliest ones, so decodes are issued in selection
\* order
FadeThenDecodeInOrder ==
  /\ [][ Len(calls') > Len(calls) =>
           /\ overlayActive'
           /\ decodes' = decodes
           /\ calls'[Len(calls')].decodes = 0
           /\ timers' = Append(timers, [ call |-> Len(calls'),
                                         sceneData |-> scenes'[currentSceneIndex' + 1] ]) ]_vars
  /\ [][ ~(decodes' \subseteq decodes) =>
           /\ lastOp'.op = "timeout"
           /\ timers # << >>
           /\ timers' = Tail(timers)
           /\ \A d \in decodes' \ decodes :
                 d.call = Head(timers).call /\ d.sceneData = Head(timers).sceneData ]_vars
  /\ [](\A c \in 1..Len(calls) :
          /\ calls[c].decodes \in 0..1
          /\ calls[c].decodes = 1 => \A b \in 1..c : calls[b].decodes = 1)

\* the timer of the first selection fired while that of the second is pending
FirstTimerFiredSecondPending ==
  /\ lastOp.op = "timeout"
  /\ lastOp.idx = 1
  /\ Len(calls) = 2
  /\ calls[1].decodes = 1
  /\ calls[2].decodes = 0
  /\ Len(timers) = 1
  /\ overlayActive

\* C17: the frame that runs the fade-in callback of a successful decode
\* leaves the field-of-view at half the default with a zoom step requested;
\* the frame after which no zoom step is requested leaves it at exactly the
\* default; and with frames delivered, pending callbacks always lead to that
\* state, whatever wheel, pinch, reset and other entry zooms do in between
EntryZoomEndsAtDefault ==
  /\ [][ lastOp'.op = "frame" /\ (\E i \in 1..Len(rafQueue) : rafQueue[i].kind = "fadeIn") =>
           /\ fov' = startFov
           /\ \E i \in 1..Len(rafQueue') : rafQueue'[i].kind = "zoomStep" ]_vars
  /\ [][ lastOp'.op = "frame" /\ rafQueue' = << >> => fov' = defaultFov ]_vars
  /\ (rafQueue # << >> ~> (rafQueue = << >> /\ fov = defaultFov))

\* the last of two entry zooms ended during a pinch that had moved the
\* field-of-view
ZoomsEndedDuringPinch ==
  /\ lastOp.op = "frame"
  /\ rafQueue = << >>
  /\ fov = defaultFov
  /\ nextObj = 3
  /\ initialPinchDistance # null
  /\ initialFov # defaultFov

\* C18: main.js never revokes an object URL; in part_000 the URLs created and
\* not revoked are exactly the URLs of the entries of the current catalog
LiveHandlesAreCatalog ==
  /\ variant = "main" => revoked = {}
  /\ variant = "part" =>
       (1..nextUrl) \ revoked = { scenes[i].url : i \in 1..Len(scenes) }
  /\ \A i \in 1..Len(scenes) : scenes[i].url \in 1..nextUrl

\* part_000 replaced a batch of two files by a batch of one
TwoHandlesRevoked ==
  /\ variant = "part"
  /\ lastOp.op = "handleFileUpload"
  /\ Cardinality(revoked) = 2
  /\ Len(scenes) = 1
  /\ scenes[1].url \notin revoked

\* C19: in part_000 every decode in flight was issued for a URL that was not
\* revoked when the loader was started
NoDecodeOnRevokedHandle ==
  variant = "part" => \A d \in decodes : d.fetchable

\* C20: in part_000 the transition overlay is active in every step in which a
\* success callback rebuilds the surface
SwapAlwaysMasked ==
  [][ lastOp'.op = "onLoad" /\ variant = "part" => overlayActive /\ overlayActive' ]_vars

\* C21: in part_000 the step that follows resetView, unless it is a wheel
\* event, a pinch move or a success callback, leaves the field-of-view at the
\* default that resetView wrote, also when zoom steps of an entry zoom are
\* pending (no fade-in callback of an earlier success is)
ResetFovHolds ==
  [][ /\ lastOp.op = "resetView"
      /\ \A i \in 1..Len(rafQueue) : rafQueue[i].kind = "zoomStep"
      /\ lastOp'.op \notin { "wheel", "touchmove", "onLoad" }
      => fov' = defaultFov ]_vars

\* C22: between handlers an entry is active exactly when the catalog holds
\* one: currentSceneIndex is -1 only while the catalog is empty, and once it
\* has left -1 no step brings it back to -1
SomeEntryActive ==
  /\ [](currentSceneIndex = -1 <=> scenes = << >>)
  /\ [](scenes # << >> => currentSceneIndex >= 0)
  /\ [][ currentSceneIndex # -1 => currentSceneIndex' # -1 ]_vars

\* part_000 replaced a catalog of one entry by two files: the index was set
\* to -1 inside the handler and is 0 after it
ActiveAfterReplacement ==
  /\ variant = "part"
  /\ lastOp.op = "handleFileUpload"
  /\ Len(calls) = 2
  /\ Cardinality(revoked) = 1
  /\ Len(scenes) = 2
  /\ currentSceneIndex = 0

====
